---- MODULE Spec2Model ----
(***************************************************************************)
(* A model of yt_auto_download.py: main() gathers one do_one(url) task per *)
(* URL on a single asyncio event loop.  Each task records with ytarchive,  *)
(* falls back to yt-dlp, uploads with rclone under a tenacity retry,       *)
(* deletes the local file, sweeps OUTPUT_DIR down to KEEP_LAST_N files     *)
(* and writes a status file.                                               *)
(*                                                                         *)
(* Granularity.  A coroutine runs from one await to the next without       *)
(* interruption by other coroutines, so every action of a task models the  *)
(* code between two awaits.  The code from line 150 to the end of do_one   *)
(* holds no await at all (rclone_copy_with_retry is a plain blocking       *)
(* function): while one task is there (Busy) no other task and not main    *)
(* may take a step.  That section is still cut into several actions,       *)
(* because the capture subprocesses of the other tasks are operating       *)
(* system processes: they go on writing files and exiting meanwhile.       *)
(***************************************************************************)
EXTENDS Naturals, Sequences, FiniteSets

\* ---------------------------------------------------------------- bounds
NJobs == 2          \* main() is given 1..NJobs URLs
MaxClock == 2       \* the clock runs 1..MaxClock
MaxKeep == 2        \* KEEP_LAST_N is drawn from 1..MaxKeep
MaxUnlinkFail == 1  \* unlink calls that raise in one sweep

\* ------------------------------------------------------ program constants
stop_after_attempt == 5     \* @retry(stop=stop_after_attempt(5), ...)
wait_multiplier == 2        \* wait_exponential(multiplier=2, ...)
wait_min == 2               \* wait_exponential(..., min=2, ...)
wait_max == 30              \* wait_exponential(..., max=30)
exp_base == 2               \* wait_exponential's default base

\* The URLs a run may be given, as the characters after "https://": a and
\* a/b.  The list of a run may hold one URL twice.
Urls == {<<"a">>, <<"a", "/", "b">>}

\* Lines 94 and 121: safe_name = url.replace("https://", "")
\* .replace("/", "_").replace(":", "_").
SafeName(url) ==
    [i \in DOMAIN url |-> IF url[i] \in {"/", ":"} THEN "_" ELSE url[i]]

VARIABLES
    clock,             \* datetime.utcnow() and st_mtime, in ticks
    keep_n,            \* KEEP_LAST_N
    urls,              \* urls of main(): task j is do_one(urls[j])
    files,             \* OUTPUT_DIR: file name -> [mtime, by]
    pc,                \* pc[j]: where task do_one(urls[j]) stands
    proc,              \* proc[j]: the capture subprocess task j last spawned
    wrote,             \* wrote[j]: that subprocess has created its output file
    outfile,           \* outfile[j]: outpref / outfile of the current attempt
    recorded,          \* recorded[j]: the path the capture returned
    attempts,          \* attempts[j]: rclone runs made by rclone_copy_with_retry
    delays,            \* delays[j]: the sleeps tenacity made between them
    primary,           \* primary[j]: outcome of record_with_ytarchive
    fallbackAttempts,  \* fallbackAttempts[j]: calls of record_with_ytdlp
    uploaded,          \* uploaded[j]: rclone_copy_with_retry returned True
    deleted,           \* deleted[j]: outcome of os.remove in rclone_delete_local
    mainState          \* main(): "gathering", "returned" or "raised"

vars == <<clock, keep_n, urls, files, pc, proc, wrote, outfile, recorded,
          attempts, delays, primary, fallbackAttempts, uploaded, deleted,
          mainState>>

\* The tasks of the run, one per URL (line 189).
Jobs == DOMAIN urls

\* ------------------------------------------------------------ file system
FileName(kind, name, ts) == [kind |-> kind, name |-> name, ts |-> ts]

NoFile == FileName("none", <<>>, 0)

\* LOGFILE = OUTPUT_DIR / "recording.log": a regular file of OUTPUT_DIR.
LOGFILE == FileName("log", <<>>, 0)

\* Files an earlier run may have left in OUTPUT_DIR (mtime 0, before this run).
OldFiles == {FileName("mkv", <<"a">>, 0)}

\* open(f, "w") or a subprocess creating f: f exists afterwards, modified now.
WriteFile(dir, f, by) ==
    [x \in DOMAIN dir \cup {f} |->
        IF x = f THEN [mtime |-> clock, by |-> by] ELSE dir[x]]

\* os.remove / Path.unlink of every file of S.
RemoveFiles(dir, S) == [x \in DOMAIN dir \ S |-> dir[x]]

\* log(msg): appends a line to LOGFILE, creating it when it is missing.
log(dir) == WriteFile(dir, LOGFILE, 0)

\* The files of S with the latest modification time.
Newest(dir, S) == {f \in S : \A g \in S : dir[g].mtime <= dir[f].mtime}

IsPrefix(p, q) == Len(p) <= Len(q) /\ SubSeq(q, 1, Len(p)) = p

\* Line 113, outdir.glob(f"{safe_name}_*.mkv").  A media file is called
\* <name>_<ts>.<kind> (lines 95, 122); the pattern matches it when it ends
\* in .mkv and starts with safe_name and "_": "a_*.mkv" matches a_<ts>.mkv
\* and also a_b_<ts>.mkv.
GlobMatches(dir, name) ==
    {f \in DOMAIN dir :
        f.kind = "mkv" /\ IsPrefix(Append(name, "_"), Append(f.name, "_"))}

\* ------------------------------------------------------------------ Init
Init ==
    /\ clock = 1
    /\ keep_n \in 1..MaxKeep
    /\ urls \in UNION {[1..n -> Urls] : n \in 1..NJobs}
    /\ \E old \in SUBSET OldFiles :
         files = [f \in old \cup {LOGFILE} |->
                    IF f = LOGFILE THEN [mtime |-> 1, by |-> 0]
                                   ELSE [mtime |-> 0, by |-> 0]]
    /\ pc = [j \in Jobs |-> "pending"]
    /\ proc = [j \in Jobs |-> "none"]
    /\ wrote = [j \in Jobs |-> FALSE]
    /\ outfile = [j \in Jobs |-> NoFile]
    /\ recorded = [j \in Jobs |-> NoFile]
    /\ attempts = [j \in Jobs |-> 0]
    /\ delays = [j \in Jobs |-> <<>>]
    /\ primary = [j \in Jobs |-> "none"]
    /\ fallbackAttempts = [j \in Jobs |-> 0]
    /\ uploaded = [j \in Jobs |-> FALSE]
    /\ deleted = [j \in Jobs |-> "none"]
    /\ mainState = "gathering"

\* ------------------------------------------------------------ event loop
SyncPcs == {"upload", "delete", "cleanup", "status", "except"}
DonePcs == {"done_ok", "done_fail"}

\* Some task is inside the await-free part of do_one: the loop is blocked.
Busy == \E j \in Jobs : pc[j] \in SyncPcs

\* gather() scheduled every task before main suspended, and the loop runs
\* the first step of each, in order, before it resumes any of them.
AllStarted == \A j \in Jobs : pc[j] # "pending"

\* A suspended task (or main) may be resumed.
LoopFree == mainState = "gathering" /\ ~Busy /\ AllStarted

\* ------------------------------------------------------------ the clock
Tick ==
    /\ mainState = "gathering"
    /\ clock < MaxClock
    /\ clock' = clock + 1
    /\ UNCHANGED <<keep_n, urls, files, pc, proc, wrote, outfile, recorded,
                   attempts, delays, primary, fallbackAttempts, uploaded,
                   deleted, mainState>>

\* ------------------------------------------------- capture subprocesses
\* A capture subprocess is an operating system process: it runs whatever
\* the event loop does, and it outlives the loop when nothing kills it.  The
\* task learns of its exit only when the loop resumes it, so the exit and
\* its return code are drawn where the task observes them (ObserveYtarchive,
\* ObserveYtdlp); until then the subprocess counts as running.
\*
\* The subprocess creates its output file at the path it was given, once.
ProcWrite(j) ==
    /\ proc[j] = "running"
    /\ ~wrote[j]
    /\ files' = WriteFile(files, outfile[j], j)
    /\ wrote' = [wrote EXCEPT ![j] = TRUE]
    /\ UNCHANGED <<clock, keep_n, urls, pc, proc, outfile, recorded,
                   attempts, delays, primary, fallbackAttempts, uploaded,
                   deleted, mainState>>

\* proc.returncode: 0, or anything else (1 stands for every non-zero code; a
\* missing tool is the shell's 127).
ReturnCodes == {0, 1}

\* ---------------------------------------------------------------- do_one
\* do_one up to its first await: record_with_ytarchive spawns ytarchive.
StartJob(j) ==
    /\ mainState = "gathering"
    /\ pc[j] = "pending"
    /\ \A k \in Jobs : k < j => pc[k] # "pending"
    /\ outfile' = [outfile EXCEPT ![j] = FileName("mkv", SafeName(urls[j]), clock)]
    /\ proc' = [proc EXCEPT ![j] = "running"]
    /\ wrote' = [wrote EXCEPT ![j] = FALSE]
    /\ pc' = [pc EXCEPT ![j] = "ytarchive"]
    /\ files' = log(files)
    /\ UNCHANGED <<clock, keep_n, urls, recorded, attempts, delays, primary,
                   fallbackAttempts, uploaded, deleted, mainState>>

\* A handler that also removes the local file it could not upload.
FailureFilesRemoving(dir, j) ==
    RemoveFiles(WriteFile(log(dir), FileName("status_fail", <<>>, clock), j),
                {recorded[j]})

\* Lines 172-176: OUTPUT_DIR after the outer handler of do_one logged the
\* failure and wrote the status_fail file named after the current second
\* (open(..., "w") truncates a file of that name).
FailureFiles(dir, j) == WriteFile(log(dir), FileName("status_fail", <<>>, clock), j)

\* An exception leaves the try block of do_one (lines 143-170) for the outer
\* handler on line 171; dir is OUTPUT_DIR as the raising code left it.  The
\* subprocess of the task, if it had one, has exited or was killed.
Raise(j, dir) ==
    /\ pc' = [pc EXCEPT ![j] = "except"]
    /\ files' = dir
    /\ proc' = [proc EXCEPT ![j] = "none"]
    /\ wrote' = [wrote EXCEPT ![j] = FALSE]
    /\ outfile' = [outfile EXCEPT ![j] = NoFile]

\* The retry state, the results and the flags of a task are locals of its
\* coroutine: they are gone when do_one ends.  What stays is the file a failed
\* upload left in OUTPUT_DIR.
Forget(j, keep) ==
    /\ recorded' = [recorded EXCEPT ![j] = IF keep THEN @ ELSE NoFile]
    /\ attempts' = [attempts EXCEPT ![j] = 0]
    /\ delays' = [delays EXCEPT ![j] = <<>>]
    /\ primary' = [primary EXCEPT ![j] = "none"]
    /\ fallbackAttempts' = [fallbackAttempts EXCEPT ![j] = 0]
    /\ uploaded' = [uploaded EXCEPT ![j] = FALSE]
    /\ deleted' = [deleted EXCEPT ![j] = "none"]

\* rclone_copy_with_retry gave up on task j's upload.
UploadFailed(j) == recorded[j] # NoFile /\ ~uploaded[j]

\* Lines 171-177, the outer except of do_one: log, write the failed status,
\* re-raise; the task ends with the exception.
HandleFailure(j) ==
    /\ mainState = "gathering"
    /\ pc[j] = "except"
    /\ pc' = [pc EXCEPT ![j] = "done_fail"]
    /\ files' = FailureFiles(files, j)
    /\ Forget(j, UploadFailed(j))
    /\ UNCHANGED <<clock, keep_n, urls, proc, wrote, outfile, mainState>>

\* Lines 147-149 and record_with_ytdlp up to its await (lines 120-127): log,
\* call record_with_ytdlp, which spawns yt-dlp on a path named after the
\* current second.
Fallback(j) ==
    /\ fallbackAttempts' = [fallbackAttempts EXCEPT ![j] = @ + 1]
    /\ outfile' = [outfile EXCEPT ![j] = FileName("mp4", SafeName(urls[j]), clock)]
    /\ proc' = [proc EXCEPT ![j] = "running"]
    /\ wrote' = [wrote EXCEPT ![j] = FALSE]
    /\ pc' = [pc EXCEPT ![j] = "ytdlp"]
    /\ files' = log(files)

\* A handler that catches RuntimeError only.
CaughtRuntimeErrorOnly(e) == e = "RuntimeError"

\* The inner handler of do_one, line 147: "except Exception" catches the
\* RuntimeError of a non-zero exit or a missing file and asyncio.TimeoutError.
CaughtByFallback(e) == e \in {"RuntimeError", "TimeoutError"}

\* record_with_ytarchive raised e (lines 107, 111, 115).
PrimaryFailed(j, e) ==
    /\ primary' = [primary EXCEPT ![j] = "failed"]
    /\ IF CaughtByFallback(e)
       THEN Fallback(j)
       ELSE Raise(j, log(files)) /\ UNCHANGED fallbackAttempts
    /\ UNCHANGED <<clock, keep_n, urls, recorded, attempts, delays, uploaded,
                   deleted, mainState>>

\* A capture returned path f (lines 116, 139): line 150 logs it, and the
\* task goes on to the upload without suspending.
CaptureReturned(j, f) ==
    /\ recorded' = [recorded EXCEPT ![j] = f]
    /\ pc' = [pc EXCEPT ![j] = "upload"]
    /\ proc' = [proc EXCEPT ![j] = "none"]
    /\ wrote' = [wrote EXCEPT ![j] = FALSE]
    /\ outfile' = [outfile EXCEPT ![j] = NoFile]
    /\ files' = log(files)
    /\ UNCHANGED <<clock, keep_n, urls, attempts, delays, fallbackAttempts,
                   uploaded, deleted, mainState>>

\* record_with_ytarchive resumed by the exit of ytarchive with return code
\* rc, lines 108-116.
ObserveYtarchive(j, rc) ==
    /\ LoopFree
    /\ pc[j] = "ytarchive"
    /\ proc[j] = "running"
    /\ IF rc # 0 \/ GlobMatches(files, SafeName(urls[j])) = {}
       THEN PrimaryFailed(j, "RuntimeError")
       ELSE \E f \in Newest(files, GlobMatches(files, SafeName(urls[j]))) :
              /\ primary' = [primary EXCEPT ![j] = "ok"]
              /\ CaptureReturned(j, f)

\* record_with_ytdlp resumed by the exit of yt-dlp with return code rc,
\* lines 133-139.
ObserveYtdlp(j, rc) ==
    /\ LoopFree
    /\ pc[j] = "ytdlp"
    /\ proc[j] = "running"
    /\ IF rc # 0 \/ outfile[j] \notin DOMAIN files
       THEN /\ Raise(j, log(files))
            /\ UNCHANGED <<clock, keep_n, urls, recorded, attempts, delays,
                           primary, fallbackAttempts, uploaded, deleted,
                           mainState>>
       ELSE CaptureReturned(j, outfile[j]) /\ UNCHANGED primary

\* A timeout handler that keeps what was recorded up to the deadline and
\* returns it as the artifact instead of re-raising.
TimeoutKeepingPartial(j) ==
    /\ LoopFree
    /\ pc[j] \in {"ytarchive", "ytdlp"}
    /\ proc[j] = "running"
    /\ IF outfile[j] \in DOMAIN files
       THEN CaptureReturned(j, outfile[j]) /\ UNCHANGED primary
       ELSE IF pc[j] = "ytarchive"
       THEN PrimaryFailed(j, "TimeoutError")
       ELSE /\ Raise(j, log(files))
            /\ UNCHANGED <<clock, keep_n, urls, recorded, attempts, delays,
                           primary, fallbackAttempts, uploaded, deleted,
                           mainState>>

\* asyncio.wait_for expired while the subprocess was still running (lines
\* 103-107 and 128-132): kill it, log, re-raise asyncio.TimeoutError.
Timeout(j) ==
    /\ LoopFree
    /\ pc[j] \in {"ytarchive", "ytdlp"}
    /\ proc[j] = "running"
    /\ IF pc[j] = "ytarchive"
       THEN PrimaryFailed(j, "TimeoutError")
       ELSE /\ Raise(j, log(files))
            /\ UNCHANGED <<clock, keep_n, urls, recorded, attempts, delays,
                           primary, fallbackAttempts, uploaded, deleted,
                           mainState>>

\* ------------------------------------------- rclone_copy_with_retry
RECURSIVE Pow(_, _)
Pow(b, e) == IF e = 0 THEN 1 ELSE b * Pow(b, e - 1)

Min(a, b) == IF a <= b THEN a ELSE b
Max(a, b) == IF a >= b THEN a ELSE b

\* A stop condition that is off by one.
StopAfterOneMore(n) == n >= stop_after_attempt + 1

\* tenacity's stop_after_attempt(5): stop once attempt_number >= 5.
StopAfterAttempt(n) == n >= stop_after_attempt

\* A backoff whose exponent is the attempt number itself: 4, 8, 16, 30.
WaitExponentialFromAttempt(n) ==
    Max(Max(0, wait_min), Min(wait_multiplier * Pow(exp_base, n), wait_max))

\* tenacity's wait_exponential(multiplier=2, min=2, max=30) after attempt n:
\* multiplier * exp_base ** (n - 1), clamped to [min, max].
WaitExponential(n) ==
    Max(Max(0, wait_min), Min(wait_multiplier * Pow(exp_base, n - 1), wait_max))

\* One turn of tenacity's loop around lines 66-73: run rclone; return True
\* when it exits 0; otherwise stop (RetryError, an Exception, reaches the
\* outer except of do_one) or time.sleep the backoff and go round again.
\* time.sleep and subprocess.run block the event loop.
UploadAttempt(j, ok) ==
    /\ mainState = "gathering"
    /\ pc[j] = "upload"
    /\ attempts' = [attempts EXCEPT ![j] = @ + 1]
    /\ IF ok
       THEN /\ uploaded' = [uploaded EXCEPT ![j] = TRUE]
            /\ pc' = [pc EXCEPT ![j] = "delete"]
            /\ files' = log(files)
            /\ UNCHANGED <<delays, proc, wrote, outfile>>
       ELSE IF StopAfterAttempt(attempts[j] + 1)
       THEN Raise(j, log(files)) /\ UNCHANGED <<delays, uploaded>>
       ELSE /\ delays' = [delays EXCEPT ![j] = Append(@, WaitExponential(attempts[j] + 1))]
            /\ files' = log(files)
            /\ UNCHANGED <<pc, uploaded, proc, wrote, outfile>>
    /\ UNCHANGED <<clock, keep_n, urls, recorded, primary, fallbackAttempts,
                   deleted, mainState>>

\* ------------------------------------------------- rclone_delete_local
\* A delete step that returns from do_one's happy path early: it goes on
\* to the status file without the retention sweep.
DeleteLocalSkippingCleanup(j, ok) ==
    /\ mainState = "gathering"
    /\ pc[j] = "delete"
    /\ ok => recorded[j] \in DOMAIN files
    /\ files' = log(IF ok THEN RemoveFiles(files, {recorded[j]}) ELSE files)
    /\ deleted' = [deleted EXCEPT ![j] = IF ok THEN "ok" ELSE "failed"]
    /\ pc' = [pc EXCEPT ![j] = "status"]
    /\ UNCHANGED <<clock, keep_n, urls, proc, wrote, outfile, recorded,
                   attempts, delays, primary, fallbackAttempts, uploaded,
                   mainState>>

\* Lines 75-80: os.remove(path); an exception is logged and swallowed.
\* os.remove of a missing file always raises.
DeleteLocal(j, ok) ==
    /\ mainState = "gathering"
    /\ pc[j] = "delete"
    /\ ok => recorded[j] \in DOMAIN files
    /\ files' = log(IF ok THEN RemoveFiles(files, {recorded[j]}) ELSE files)
    /\ deleted' = [deleted EXCEPT ![j] = IF ok THEN "ok" ELSE "failed"]
    /\ pc' = [pc EXCEPT ![j] = "cleanup"]
    /\ UNCHANGED <<clock, keep_n, urls, proc, wrote, outfile, recorded,
                   attempts, delays, primary, fallbackAttempts, uploaded,
                   mainState>>

\* --------------------------------------------------- cleanup_keep_last
\* Line 83: files = sorted(regular files, key=st_mtime, reverse=True).  The
\* sort is stable and iterdir() lists in no defined order, so files of
\* equal st_mtime come in any order: files[:keep_n] is any set K of
\* min(keep_n, len(files)) files such that no file outside K is newer than
\* a file of K.
KeptSets(dir, n) ==
    {K \in SUBSET DOMAIN dir :
        /\ Cardinality(K) = Min(n, Cardinality(DOMAIN dir))
        /\ \A f \in K, g \in DOMAIN dir \ K : dir[f].mtime >= dir[g].mtime}

\* Lines 84-89: unlink every file of files[keep_n:], logging each one.  The
\* unlinks of F raise (logged, swallowed).  Each turn of the loop calls log(),
\* which writes LOGFILE anew when the sweep has just removed it.
Sweep(dir, K, F) ==
    IF DOMAIN dir \ K = {} THEN dir ELSE log(RemoveFiles(dir, DOMAIN dir \ (K \cup F)))

\* Every directory cleanup_keep_last(OUTPUT_DIR, n) may leave.
CleanupResults(dir, n) ==
    {Sweep(dir, K, F) : <<K, F>> \in
        UNION {{<<K, F>> : F \in {X \in SUBSET (DOMAIN dir \ K) :
                                     Cardinality(X) <= MaxUnlinkFail}} :
               K \in KeptSets(dir, n)}}

\* Line 160.  p.stat() on line 83 is outside the try: when a file listed by
\* iterdir() is gone by the time it is stat-ed (a running capture subprocess
\* removing a temporary file of its own), FileNotFoundError leaves
\* cleanup_keep_last and reaches the outer except of do_one.
Cleanup(j, raises) ==
    /\ mainState = "gathering"
    /\ pc[j] = "cleanup"
    /\ raises => \E k \in Jobs : proc[k] = "running"
    /\ IF raises
       THEN Raise(j, files)
       ELSE /\ files' \in CleanupResults(files, keep_n)
            /\ pc' = [pc EXCEPT ![j] = "status"]
            /\ UNCHANGED <<proc, wrote, outfile>>
    /\ UNCHANGED <<clock, keep_n, urls, recorded, attempts, delays, primary,
                   fallbackAttempts, uploaded, deleted, mainState>>

\* Lines 162-170: write the status file named after the current second
\* (open(..., "w") truncates a file of that name), log "Job complete".
WriteStatus(j) ==
    /\ mainState = "gathering"
    /\ pc[j] = "status"
    /\ files' = log(WriteFile(files, FileName("status", <<>>, clock), j))
    /\ pc' = [pc EXCEPT ![j] = "done_ok"]
    /\ Forget(j, FALSE)
    /\ UNCHANGED <<clock, keep_n, urls, proc, wrote, outfile, mainState>>

\* ------------------------------------------------------------------ main
\* A main() that gathers with return_exceptions=True: it returns once every
\* task has ended, failed or not.
MainReturnAnyDone ==
    /\ mainState = "gathering"
    /\ \A j \in Jobs : pc[j] \in DonePcs
    /\ mainState' = "returned"
    /\ UNCHANGED <<clock, keep_n, urls, files, pc, proc, wrote, outfile,
                   recorded, attempts, delays, primary, fallbackAttempts,
                   uploaded, deleted>>

\* Line 191: every task returned, gather() returns, main() returns and
\* asyncio.run() ends: exit status 0.
MainReturn ==
    /\ mainState = "gathering"
    /\ \A j \in Jobs : pc[j] = "done_ok"
    /\ mainState' = "returned"
    /\ UNCHANGED <<clock, keep_n, urls, files, pc, proc, wrote, outfile,
                   recorded, attempts, delays, primary, fallbackAttempts,
                   uploaded, deleted>>

\* Line 191: gather() without return_exceptions hands the first exception of
\* a task to main() as soon as the loop resumes main.  main() raises, and
\* asyncio.run() cancels every task still pending before it closes the loop.
\* asyncio.CancelledError is a BaseException: neither "except
\* asyncio.TimeoutError" (lines 103, 128) nor "except Exception" (lines 147,
\* 171) catches it, so a cancelled task kills no subprocess and writes no
\* status.  The process ends with a traceback: exit status 1.
MainRaise ==
    /\ LoopFree
    /\ \E j \in Jobs : pc[j] = "done_fail"
    /\ mainState' = "raised"
    /\ pc' = [j \in Jobs |-> IF pc[j] \in DonePcs THEN pc[j] ELSE "cancelled"]
    /\ primary' = [j \in Jobs |-> "none"]
    /\ fallbackAttempts' = [j \in Jobs |-> 0]
    /\ UNCHANGED <<clock, keep_n, urls, files, proc, wrote, outfile,
                   recorded, attempts, delays, uploaded, deleted>>

\* Lines 193-195: the exit status of the process once asyncio.run(main())
\* is over: 0 when main() returned, 1 when the exception of main() ended the
\* interpreter with a traceback.
ExitStatus == IF mainState = "returned" THEN 0 ELSE 1

Next ==
    \/ Tick
    \/ \E j \in Jobs : StartJob(j)
    \/ \E j \in Jobs : ProcWrite(j)
    \/ \E j \in Jobs, rc \in ReturnCodes : ObserveYtarchive(j, rc)
    \/ \E j \in Jobs, rc \in ReturnCodes : ObserveYtdlp(j, rc)
    \/ \E j \in Jobs : Timeout(j)
    \/ \E j \in Jobs, ok \in BOOLEAN : UploadAttempt(j, ok)
    \/ \E j \in Jobs, ok \in BOOLEAN : DeleteLocal(j, ok)
    \/ \E j \in Jobs, raises \in BOOLEAN : Cleanup(j, raises)
    \/ \E j \in Jobs : WriteStatus(j)
    \/ \E j \in Jobs : HandleFailure(j)
    \/ MainReturn
    \/ MainRaise

Spec == Init /\ [][Next]_vars

\* Runs of main() with a single URL.
InitOneUrl == Init /\ Len(urls) = 1
SpecOneUrl == InitOneUrl /\ [][Next]_vars

\* ================================================================ claims
\* The JobStatus records of task j in OUTPUT_DIR: the status files it wrote.
StatusFiles(j) ==
    {f \in DOMAIN files : f.kind \in {"status", "status_fail"} /\ files[f].by = j}

RunOver == mainState # "gathering"

\* Where a task stands that has started and has not ended.
ActivePcs == {"ytarchive", "ytdlp"} \cup SyncPcs

Running == {j \in Jobs : pc[j] \in ActivePcs}

\* C1: once the run has completed, OUTPUT_DIR holds exactly one JobStatus
\* record (status_*.json or status_fail_*.json) for each URL given to main().
C1_OneStatusPerJob ==
    RunOver => \A j \in Jobs : Cardinality(StatusFiles(j)) = 1

\* C2: a job that ended in Done(failure) never cancels a sibling: every other
\* job goes on with its own steps, or has reached its own Done.
C2_FailureCancelsNoSibling ==
    (\E j \in Jobs : pc[j] = "done_fail")
        => \A k \in Jobs : pc[k] \in ActivePcs \cup DonePcs

\* C3: main() has returned or raised only when every job is in a Done state.
C3_RunEndsAfterAllDone ==
    RunOver => \A j \in Jobs : pc[j] \in DonePcs

\* C4: at most max_concurrency jobs have started and not reached Done; with
\* max_concurrency = 1, job 2 starts only after job 1 has ended.
C4_AtMostMaxConcurrency ==
    LET max_concurrency == 1
    IN  Cardinality(Running) <= max_concurrency

\* C5: when record_with_ytarchive has failed, record_with_ytdlp has been
\* called exactly once, also when the job is about to be marked failed; when
\* it returned an artifact, record_with_ytdlp has not been called; it is
\* never called twice.
C5_FallbackExactlyOnce ==
    \A j \in Jobs :
        /\ fallbackAttempts[j] <= 1
        /\ primary[j] = "failed" => fallbackAttempts[j] = 1
        /\ primary[j] = "ok" => fallbackAttempts[j] = 0

\* C5 witness: both strategies failed and the job is about to be marked
\* failed, after one fallback attempt.
C5_Witness ==
    \E j \in Jobs :
        pc[j] = "except" /\ primary[j] = "failed" /\ fallbackAttempts[j] = 1
            /\ recorded[j] = NoFile

\* C6: when a job whose upload succeeded reaches Done, its local artifact is
\* no longer in OUTPUT_DIR, whatever rclone_delete_local met.
C6_UploadedArtifactGone ==
    [][\A j \in Jobs :
          (uploaded[j] /\ pc[j] \notin DonePcs /\ pc'[j] \in DonePcs)
              => recorded[j] \notin DOMAIN files']_vars

\* The upload of task j failed five times and the exception is on its way
\* to the outer handler of do_one.
Exhausted(j) == pc[j] = "except" /\ UploadFailed(j)

\* C7: when the upload gave up, the job ends in Done(failure) and its local
\* artifact is still in OUTPUT_DIR at that point: the step that ends the job
\* removes no file at all.
C7_FailedUploadKeepsArtifact ==
    /\ [](\A j \in Jobs : Exhausted(j) => recorded[j] \in DOMAIN files)
    /\ [][\A j \in Jobs :
             Exhausted(j) =>
                /\ pc'[j] \in {"except", "done_fail"}
                /\ recorded[j] \in DOMAIN files'
                /\ DOMAIN files \subseteq DOMAIN files']_vars

\* C7 witness: a job ended in Done(failure) after its upload gave up, and the
\* file it recorded is in OUTPUT_DIR.
C7_Witness ==
    \E j \in Jobs :
        pc[j] = "done_fail" /\ recorded[j] # NoFile /\ recorded[j] \in DOMAIN files

\* File f is in the hands of task j: the output of its running capture, the
\* artifact it is uploading, or the artifact its failed upload left behind.
Holds(j, f) ==
    \/ pc[j] \in {"ytarchive", "ytdlp"} /\ f = outfile[j]
    \/ pc[j] \in {"upload", "done_fail"} /\ f = recorded[j]

\* C8: a sweep of cleanup_keep_last by one job never removes a file that is
\* in the hands of another job (the artifact the sweeping job has uploaded
\* itself set aside).
C8_SweepSparesOtherJobs ==
    [][\A k \in Jobs :
          (pc[k] = "cleanup" /\ pc'[k] = "status") =>
              \A j \in Jobs \ {k} :
                  \A f \in (DOMAIN files \ DOMAIN files') \ {recorded[k]} :
                      ~Holds(j, f)]_vars

IsNonDecreasing(s) == \A i \in 1..(Len(s) - 1) : s[i] <= s[i + 1]

\* C9: one upload makes at most 5 attempts, none after a successful one and
\* none after the 5th failure; the delays between attempts never decrease
\* and never exceed 30.
C9_BoundedRetry ==
    /\ [](\A j \in Jobs :
            /\ attempts[j] <= 5
            /\ Len(delays[j]) <= attempts[j]
            /\ IsNonDecreasing(delays[j])
            /\ \A i \in 1..Len(delays[j]) : delays[j][i] <= 30)
    /\ [][\A j \in Jobs :
             attempts'[j] > attempts[j] => ~uploaded[j] /\ attempts[j] < 5]_vars

\* C9 witness: five attempts failed, with four delays between them.
C9_Witness ==
    \E j \in Jobs :
        pc[j] = "except" /\ attempts[j] = 5 /\ ~uploaded[j] /\ Len(delays[j]) = 4

\* File names in the order of their text: a_<ts>.mkv, a_<ts>.mp4,
\* a_b_<ts>.mkv, a_b_<ts>.mp4, recording.log, status_<ts>.json,
\* status_fail_<ts>.json.
NameKey(f) ==
    <<CASE f.kind = "log" -> 3
        [] f.kind = "status" -> 4
        [] f.kind = "status_fail" -> 5
        [] OTHER -> IF f.name = <<"a">> THEN 1 ELSE 2,
      f.ts,
      IF f.kind = "mp4" THEN 1 ELSE 0>>

NameBefore(f, g) ==
    LET a == NameKey(f)
        b == NameKey(g)
    IN  \/ a[1] < b[1]
        \/ a[1] = b[1] /\ a[2] < b[2]
        \/ a[1] = b[1] /\ a[2] = b[2] /\ a[3] < b[3]

\* f comes before g in the listing: modified later, or at the same time and
\* first by name.
ListedBefore(dir, f, g) ==
    \/ dir[f].mtime > dir[g].mtime
    \/ dir[f].mtime = dir[g].mtime /\ NameBefore(f, g)

\* The n first files of dir in that listing.
MostRecent(dir, n) ==
    {f \in DOMAIN dir :
        Cardinality({g \in DOMAIN dir : ListedBefore(dir, g, f)}) < n}

\* C10: after cleanup_keep_last(OUTPUT_DIR, KEEP_LAST_N) returned, OUTPUT_DIR
\* holds at most KEEP_LAST_N files, and they are the KEEP_LAST_N most
\* recently modified ones, ties in modification time broken by name.
C10_KeepsMostRecent ==
    [][\A k \in Jobs :
          (pc[k] = "cleanup" /\ pc'[k] = "status") =>
              /\ Cardinality(DOMAIN files') <= keep_n
              /\ DOMAIN files' = MostRecent(files, keep_n)]_vars

C12_TimeoutFallsThrough ==
    [][\A j \in Jobs :
          Timeout(j) =>
              /\ ~(proc'[j] = "running" /\ outfile'[j] = outfile[j])
              /\ files'[LOGFILE].mtime = clock
              /\ pc[j] = "ytarchive" =>
                    /\ primary'[j] = "failed"
                    /\ pc'[j] = "ytdlp"
                    /\ proc'[j] = "running"
                    /\ fallbackAttempts'[j] = fallbackAttempts[j] + 1
              /\ pc[j] = "ytdlp" => pc'[j] = "except" /\ proc'[j] = "none"
              /\ pc'[j] \notin {"upload", "done_ok"}
              /\ recorded'[j] = NoFile]_vars

\* C12 witness: the fallback is running after the primary attempt failed
\* with its output file already written in part.
C12_Witness ==
    \E j \in Jobs :
        /\ pc[j] = "ytdlp" /\ proc[j] = "running" /\ primary[j] = "failed"
        /\ \E f \in DOMAIN files : f.kind = "mkv" /\ files[f].by = j

\* C13: a job whose upload succeeded never reaches the outer handler of
\* do_one: nothing cleanup_keep_last meets turns it into Done(failure).
C13_CleanupNeverFailsJob ==
    \A j \in Jobs : pc[j] = "except" => ~uploaded[j]

\* The media files in dir that the capture subprocesses of task j created.
CapturedBy(dir, j) ==
    {f \in DOMAIN dir : f.kind \in {"mkv", "mp4"} /\ dir[f].by = j}

\* C14: when both ytarchive and yt-dlp failed for a job, the job ends in
\* Done(failure) and OUTPUT_DIR then holds no file its capture attempts
\* created.
C14_NoPartialArtifactKept ==
    [][\A j \in Jobs :
          (pc[j] = "except" /\ recorded[j] = NoFile /\ pc'[j] # pc[j]) =>
              /\ pc'[j] = "done_fail"
              /\ CapturedBy(files', j) = {}]_vars

\* C15: while one job is inside rclone_copy_with_retry, a sibling whose
\* capture subprocess is running can still take a step of its own: its
\* deadline can fire.
C15_UploadBlocksNoSibling ==
    \A j \in Jobs : \A k \in Jobs \ {j} :
        (pc[j] = "upload" /\ pc[k] \in {"ytarchive", "ytdlp"}
            /\ proc[k] = "running")
                => ENABLED Timeout(k)

\* C16: no capture subprocess is running once the process has exited.
C16_NoSubprocessOutlivesRun ==
    RunOver => \A j \in Jobs : proc[j] # "running"

\* C17: the file a capture returns is the one this attempt was told to write
\* (named after the job's URL and the second the attempt started) and this
\* attempt's subprocess created it.
C17_ArtifactIsOwnOutput ==
    [][\A j \in Jobs :
          (pc[j] \in {"ytarchive", "ytdlp"} /\ pc'[j] = "upload") =>
              recorded'[j] = outfile[j] /\ wrote[j]]_vars

\* C18 as stated: when every upload attempt failed, rclone ran exactly 5
\* times and the backoff delays were 2, 4, 8, 16, 30.
C18_FiveAttemptsFiveDelays ==
    \A j \in Jobs :
        Exhausted(j) => attempts[j] = 5 /\ delays[j] = <<2, 4, 8, 16, 30>>

\* C18 amended: when every upload attempt failed, rclone ran exactly 5 times
\* and the 4 backoff delays between the attempts were 2, 4, 8, 16; no delay
\* follows the 5th failure.
C18_FiveAttemptsFourDelays ==
    \A j \in Jobs :
        Exhausted(j) => attempts[j] = 5 /\ delays[j] = <<2, 4, 8, 16>>

\* C18 witness: an upload that gave up, its last delay having been 16.
C18_Witness ==
    \E j \in Jobs :
        Exhausted(j) /\ delays[j] # <<>> /\ delays[j][Len(delays[j])] = 16

\* C19: a status file, once written, is never removed and never written
\* again: it keeps its content and modification time.
C19_StatusNeverChanges ==
    [][\A f \in DOMAIN files :
          f.kind \in {"status", "status_fail"} =>
              f \in DOMAIN files' /\ files'[f] = files[f]]_vars

\* The places of do_one in the order the code runs through them.
StepOrder ==
    <<"pending", "ytarchive", "ytdlp", "upload", "delete", "cleanup",
      "status", "except">>

\* The rank of place p in StepOrder; the ends of a task rank last.
Position(p) ==
    IF \E i \in DOMAIN StepOrder : StepOrder[i] = p
    THEN CHOOSE i \in DOMAIN StepOrder : StepOrder[i] = p
    ELSE Len(StepOrder) + 1

\* C20: a job only moves forward and enters no place twice; the upload
\* starts only from a capture that returned an artifact, the delete only
\* after the upload succeeded, the sweep after the delete, the success
\* status after the sweep; the capture subprocess is over and the fallback
\* and upload counters stand still once a later place was entered.
C20_StatesInOrder ==
    /\ [](\A j \in Jobs :
            pc[j] \in {"upload", "delete", "cleanup", "status"} =>
                proc[j] = "none" /\ recorded[j] # NoFile)
    /\ [][\A j \in Jobs :
             /\ pc'[j] # pc[j] =>
                   /\ Position(pc[j]) < Position(pc'[j])
                   /\ pc'[j] = "ytarchive" => pc[j] = "pending"
                   /\ pc'[j] = "ytdlp" => pc[j] = "ytarchive"
                   /\ pc'[j] = "upload" =>
                         pc[j] \in {"ytarchive", "ytdlp"} /\ recorded'[j] # NoFile
                   /\ pc'[j] = "delete" => pc[j] = "upload" /\ uploaded'[j]
                   /\ pc'[j] = "cleanup" => pc[j] = "delete"
                   /\ pc'[j] = "status" => pc[j] = "cleanup"
                   /\ pc'[j] = "done_ok" =>
                         /\ pc[j] = "status"
                         /\ \E f \in StatusFiles(j)' : f.kind = "status"
             /\ fallbackAttempts'[j] > fallbackAttempts[j] => pc[j] = "ytarchive"
             /\ attempts'[j] > attempts[j] => pc[j] = "upload"]_vars

\* C20 witness: a job went all the way to Done(success) and its status
\* record is in OUTPUT_DIR.
C20_Witness ==
    \E j \in Jobs :
        pc[j] = "done_ok" /\ \E f \in StatusFiles(j) : f.kind = "status"
====
